---- MODULE Spec2Model ----
(***************************************************************************)
(* Deployment / version lifecycle of the phost server                      *)
(* (server/serversite/views.py, migrations/0001_initial.py).               *)
(*                                                                         *)
(* The database is modelled as two committed tables plus one write buffer  *)
(* per open transaction (transaction.atomic()).  A request handler is a    *)
(* process: its statements that read or write the database or the hosting  *)
(* directory are separate steps, so two requests interleave.               *)
(* The hosting directory (upload.py, not part of the sources at hand) is a *)
(* set of extracted version directories plus one 'latest' pointer per      *)
(* directory key.                                                          *)
(***************************************************************************)
EXTENDS Integers, FiniteSets, Sequences, TLC

\* ---------------------------------------------------------------- bounds
MaxDeployments == 2      \* StaticDeployment ids handed out by the AutoField
MaxVersions    == 3      \* DeploymentVersion ids handed out by the AutoField

Reqs          == {1, 2}                  \* request slots served concurrently
Names         == {"a", "b"}              \* valid deployment names
Subdomains    == {"a", "b"}              \* valid subdomains (slugs)
VersionLabels == {"v1", "v2"}        \* labels of the full workload
UploadLabels  == VersionLabels \cup {"v3"}  \* labels of the upload-race workload
NameInputs      == Names \cup {""}
SubdomainInputs == Subdomains \cup {""}
LookupFields  == {"id", "subdomain", "name", "bogus"}
LookupValues  == {"1", "2", "a", "b"}

NoDep     == 0
NoRow     == [id |-> 0, deployment |-> 0, version |-> "", active |-> FALSE]
NoVersion == ""
NoResp    == [status |-> 0, body |-> "", uncaught |-> ""]
NoReq     == [name |-> "", subdomain |-> "", version |-> "", dep |-> NoDep]
EmptyTxn  == [deps |-> {}, vers |-> {}]
NoSnapshot == [dirs |-> {}, latest |-> <<>>]

VARIABLES
    deployments,   \* committed StaticDeployment rows  [id, name, subdomain]
    versions,      \* committed DeploymentVersion rows [id, deployment, version, active]
    nextDepId,     \* AutoField counter of StaticDeployment
    nextVerId,     \* AutoField counter of DeploymentVersion
    dirs,          \* hosting directory: set of <<key, version>> extracted
    latest,        \* hosting directory: key -> version the 'latest' pointer names
    pc,            \* request -> position in its handler
    req,           \* request -> handler locals (name, subdomain, version, deployment id)
    old,           \* request -> old_version loaded by DeploymentVersionView.post
    txn,           \* request -> uncommitted writes of its open transaction
    resp,          \* response of the handler that finished last, with the
                   \* exception with_caught_exceptions printed for a 500
    before         \* request -> hosting directory when its new-version upload began

vars == <<deployments, versions, nextDepId, nextVerId, dirs, latest,
          pc, req, old, txn, resp, before>>

dbvars == <<deployments, versions>>
fsvars == <<dirs, latest>>

\* ---------------------------------------------------------------- login
\* variant: the login check lets every request through
with_login_required_Skipped(auth) == TRUE

\* with_login_required: the wrapped handler runs only for a logged-in user
with_login_required(auth) == auth

\* ------------------------------------------------------------ validation
validate_deployment_name(name) == name # ""
validate_subdomain(subdomain)  == subdomain # ""

\* ---------------------------------------------------------------- lookup
\* The URL segment is text; an id lookup converts it to an integer.
IsIntLiteral(s) == s \in {"1", "2", "3", "4"}
ToInt(s) == CASE s = "1" -> 1 [] s = "2" -> 2 [] s = "3" -> 3 [] s = "4" -> 4
              [] OTHER -> 0

ValidLookupField(field) == field \in {"id", "subdomain", "name"}

\* variant: get_query_dict ignores lookupField and always looks up by id
Matching_IdOnly(field, value) ==
    {d \in deployments : IsIntLiteral(value) /\ d.id = ToInt(value)}

\* StaticDeployment.objects.get(**{field: value}) over the committed table
Matching(field, value) ==
    {d \in deployments :
        \/ field = "id" /\ IsIntLiteral(value) /\ d.id = ToInt(value)
        \/ field = "name" /\ d.name = value
        \/ field = "subdomain" /\ d.subdomain = value}

\* Outcome of get_query_dict followed by get_or_none.
LookupOutcome(field, value) ==
    IF ~ValidLookupField(field) THEN "bad_request"
    ELSE IF field = "id" /\ ~IsIntLiteral(value) THEN "server_error"
    ELSE IF Matching(field, value) = {} THEN "not_found"
    ELSE "found"

Found(field, value) == CHOOSE d \in Matching(field, value) : TRUE

VersionsOf(depId) == {v \in versions : v.deployment = depId}
ActiveOf(depId)   == {v \in VersionsOf(depId) : v.active}

\* ------------------------------------------------------------- data store
\* variant: the unique index on subdomain is missing
UniqueViolation_NameOnly(name, subdomain, rows) ==
    \E d \in rows : d.name = name

\* unique=True on name and on subdomain
UniqueViolation(name, subdomain, rows) ==
    \E d \in rows : d.name = name \/ d.subdomain = subdomain

OtherTxnDeps(r) == UNION {txn[q].deps : q \in Reqs \ {r}}
OtherTxnVers(r) == UNION {txn[q].vers : q \in Reqs \ {r}}

\* Model.save(): UPDATE by primary key, INSERT when no row has that key
Upsert(rows, row) == {x \in rows : x.id # row.id} \cup {row}

\* rows a commit leaves in a table
Committed(rows, written) ==
    {x \in rows : \A w \in written : w.id # x.id} \cup written

\* variant: the rows deleted before the failing call stay deleted
RolledBack_Kept(rows, written) == written

\* a table after an exception left transaction.atomic(): the rows it had
\* before the block, not the ones the block wrote
RolledBack(rows, written) == rows

\* variant: the foreign key does not cascade
Cascaded_Not(rows, depId) == rows

\* on_delete=CASCADE: deleting a deployment deletes the versions it owns
Cascaded(rows, depId) == {v \in rows : v.deployment # depId}

\* ------------------------------------------------------ hosting directory
\* handle_uploaded_static_archive(file, key, version)
Extracted(key, version) == dirs \cup {<<key, version>>}
\* update_symlink(key, version)
Repointed(key, version) == [latest EXCEPT ![key] = version]
\* delete_hosted_version(key, version)
WithoutVersionDir(key, version) == dirs \ {<<key, version>>}
\* delete_hosted_deployment(key)
WithoutDeploymentDir(key) == {p \in dirs : p[1] # key}

\* --------------------------------------------------------------- responses
\* with_caught_exceptions, with_default_success and the handlers' own returns
Forbidden       == [status |-> 403, body |-> "You must be logged into access this view", uncaught |-> ""]
NotFoundResp    == [status |-> 404, body |-> "", uncaught |-> ""]
\* 500: with_caught_exceptions prints the exception it did not expect
ServerError(e)  == [status |-> 500, body |-> "An unhandled error occured while processing the request",
                    uncaught |-> e]
BadLookupField  == [status |-> 400, body |-> "The supplied lookupField was invalid", uncaught |-> ""]
BadForm         == [status |-> 400, body |-> "invalid form", uncaught |-> ""]
DuplicateDeployment == [status |-> 400, body |-> "name and subdomain must be unique!", uncaught |-> ""]
DuplicateVersion == [status |-> 400, body |-> "The new version name must be unique.", uncaught |-> ""]
Success         == [status |-> 200, body |-> "success", uncaught |-> ""]
CreatedResp     == [status |-> 200, body |-> "deployment created", uncaught |-> ""]
VersionResp     == [status |-> 200, body |-> "version", uncaught |-> ""]
DeploymentResp  == [status |-> 200, body |-> "deployment", uncaught |-> ""]

\* response of a failed get_query_dict / get_or_none
LookupFailure(field, value) ==
    CASE LookupOutcome(field, value) = "bad_request" -> BadLookupField
      [] LookupOutcome(field, value) = "server_error" -> ServerError("ValueError")
      [] OTHER -> NotFoundResp

\* --------------------------------------------------------------- requests
Idle(r) == pc[r] = "idle"

\* the handler returns or raises: its transaction ends, its locals are gone
Finish(r, response) ==
    /\ resp' = response
    /\ pc'   = [pc EXCEPT ![r] = "idle"]
    /\ req'  = [req EXCEPT ![r] = NoReq]
    /\ old'  = [old EXCEPT ![r] = NoRow]
    /\ txn'  = [txn EXCEPT ![r] = EmptyTxn]
    /\ before' = [before EXCEPT ![r] = NoSnapshot]

\* the handler goes on to its next statement
Enter(r, label) ==
    /\ pc' = [pc EXCEPT ![r] = label]
    /\ UNCHANGED <<resp, before>>

\* DeploymentVersionView.post passed its checks and opens its transaction
Begin(r, label) ==
    /\ pc' = [pc EXCEPT ![r] = label]
    /\ before' = [before EXCEPT ![r] = [dirs |-> dirs, latest |-> latest]]
    /\ UNCHANGED resp

\* an exception leaves transaction.atomic(): nothing of it is stored
Rollback(r, response) ==
    /\ Finish(r, response)
    /\ UNCHANGED <<deployments, versions, dirs, latest, nextDepId, nextVerId>>

\* inputs that decide nothing once cond is false are drawn as one value
Inputs(cond, S) == IF cond THEN S ELSE {CHOOSE x \in S : TRUE}

\* requests that will still take a DeploymentVersion id
PendingVersionInserts ==
    Cardinality({q \in Reqs : pc[q] \in
        {"save_dep", "save_ver", "read_active", "deactivate", "insert_new"}})
PendingDeploymentInserts ==
    Cardinality({q \in Reqs : pc[q] = "save_dep"})

Init ==
    /\ deployments = {}
    /\ versions = {}
    /\ nextDepId = 1
    /\ nextVerId = 1
    /\ dirs = {}
    /\ latest = [k \in Names \cup Subdomains |-> NoVersion]
    /\ pc = [r \in Reqs |-> "idle"]
    /\ req = [r \in Reqs |-> NoReq]
    /\ old = [r \in Reqs |-> NoRow]
    /\ txn = [r \in Reqs |-> EmptyTxn]
    /\ resp = NoResp
    /\ before = [r \in Reqs |-> NoSnapshot]

\* ------------------------------------------------ Deployments.post
\* login check, form values, validate_deployment_name, validate_subdomain:
\* the response raised before the transaction, NoResp when none is
DeploymentsPostRefusal(auth, name, subdomain) ==
    IF ~with_login_required(auth) THEN Forbidden
    ELSE IF ~validate_deployment_name(name) \/ ~validate_subdomain(subdomain)
    THEN BadForm
    ELSE NoResp

DeploymentsPost(r, auth, name, subdomain, version) ==
    /\ Idle(r)
    /\ IF DeploymentsPostRefusal(auth, name, subdomain) # NoResp
       THEN Rollback(r, DeploymentsPostRefusal(auth, name, subdomain))
       ELSE
            /\ nextDepId + PendingDeploymentInserts <= MaxDeployments
            /\ nextVerId + PendingVersionInserts <= MaxVersions
            /\ Enter(r, "save_dep")
            /\ req' = [req EXCEPT ![r] = [name |-> name, subdomain |-> subdomain,
                                          version |-> version, dep |-> NoDep]]
            /\ UNCHANGED <<dbvars, fsvars, nextDepId, nextVerId, old, txn>>

DeploymentsPostStart(r) ==
    \E auth \in BOOLEAN :
    \E name \in Inputs(auth, NameInputs) :
    \E subdomain \in Inputs(auth /\ validate_deployment_name(name), SubdomainInputs) :
    \E version \in Inputs(auth /\ validate_deployment_name(name)
                               /\ validate_subdomain(subdomain), VersionLabels) :
        DeploymentsPost(r, auth, name, subdomain, version)

\* the IntegrityError of a unique index carries "Duplicate entry", which the
\* handler turns into BadInputException
SaveDeployment(r) ==
    /\ pc[r] = "save_dep"
    /\ IF UniqueViolation(req[r].name, req[r].subdomain, deployments) THEN
            Rollback(r, DuplicateDeployment)
       ELSE
            \* a duplicate of an uncommitted row waits for that transaction
            /\ ~UniqueViolation(req[r].name, req[r].subdomain, OtherTxnDeps(r))
            /\ txn' = [txn EXCEPT ![r].deps =
                         {[id |-> nextDepId, name |-> req[r].name,
                           subdomain |-> req[r].subdomain]}]
            /\ req' = [req EXCEPT ![r].dep = nextDepId]
            /\ nextDepId' = nextDepId + 1
            /\ Enter(r, "save_ver")
            /\ UNCHANGED <<dbvars, fsvars, nextVerId, old>>

\* version_model.save() of the first version, active
SaveInitialVersion(r) ==
    /\ pc[r] = "save_ver"
    /\ txn' = [txn EXCEPT ![r].vers =
                 {[id |-> nextVerId, deployment |-> req[r].dep,
                   version |-> req[r].version, active |-> TRUE]}]
    /\ nextVerId' = nextVerId + 1
    /\ Enter(r, "extract")
    /\ UNCHANGED <<dbvars, fsvars, nextDepId, req, old>>

\* variant: the archive is extracted after the atomic block, so a failed
\* extraction finds the rows committed
ExtractInitial_AfterCommit(r) ==
    /\ pc[r] = "extract"
    /\ \/ /\ dirs' = Extracted(req[r].subdomain, req[r].version)
          /\ Enter(r, "commit")
          /\ UNCHANGED <<dbvars, latest, nextDepId, nextVerId, req, old, txn>>
       \/ /\ deployments' = Committed(deployments, txn[r].deps)
          /\ versions' = Committed(versions, txn[r].vers)
          /\ Finish(r, ServerError("handle_uploaded_static_archive"))
          /\ UNCHANGED <<fsvars, nextDepId, nextVerId>>

\* handle_uploaded_static_archive(file, subdomain, version); a failure
\* leaves the atomic block by exception
ExtractInitial(r) ==
    /\ pc[r] = "extract"
    /\ \/ /\ dirs' = Extracted(req[r].subdomain, req[r].version)
          /\ Enter(r, "commit")
          /\ UNCHANGED <<dbvars, latest, nextDepId, nextVerId, req, old, txn>>
       \/ Rollback(r, ServerError("handle_uploaded_static_archive"))

\* leaving transaction.atomic() normally, then the JSON response
CommitInitial(r) ==
    /\ pc[r] = "commit"
    /\ deployments' = Committed(deployments, txn[r].deps)
    /\ versions' = Committed(versions, txn[r].vers)
    /\ Finish(r, CreatedResp)
    /\ UNCHANGED <<fsvars, nextDepId, nextVerId>>

\* ------------------------------------------------ Deployment.get
\* next(v for v in versions if v.active) raises StopIteration without an
\* active version
GetOutcome(field, value) ==
    IF LookupOutcome(field, value) # "found" THEN LookupFailure(field, value)
    ELSE IF ActiveOf(Found(field, value).id) = {} THEN ServerError("StopIteration")
    ELSE DeploymentResp

\* DeploymentVersion rows of a deployment in the model's ordering, created_on
\* (ids are handed out in the order the rows are created)
OrderedVersions(depId) ==
    CHOOSE s \in [1..Cardinality(VersionsOf(depId)) -> VersionsOf(depId)] :
        \A i, j \in DOMAIN s : i < j => s[i].id < s[j].id

\* versions_list: the labels of the deployment's versions, in that order
versions_list(depId) ==
    [i \in DOMAIN OrderedVersions(depId) |-> OrderedVersions(depId)[i].version]

\* next(v for v in versions if v.active): the first active version
active_version(depId) ==
    LET s == OrderedVersions(depId)
        first == CHOOSE i \in DOMAIN s :
                    s[i].active /\ \A j \in DOMAIN s : s[j].active => i <= j
    IN s[first].version

\* the JSON body Deployment.get returns for the deployment it found
deployment_data(field, value) ==
    [id |-> Found(field, value).id,
     name |-> Found(field, value).name,
     subdomain |-> Found(field, value).subdomain,
     versions |-> versions_list(Found(field, value).id),
     active_version |-> active_version(Found(field, value).id)]

DeploymentGet(r) ==
    /\ Idle(r)
    /\ \E field \in LookupFields :
       \E value \in Inputs(ValidLookupField(field), LookupValues) :
            Rollback(r, GetOutcome(field, value))

\* ------------------------------------------------ DeploymentVersionView.post
\* variant: the label is looked for among the active versions only
VersionExists_ActiveOnly(depId, version) ==
    \E v \in versions : v.deployment = depId /\ v.version = version /\ v.active

\* version label already present for the deployment (read before the
\* transaction opens)
VersionExists(depId, version) ==
    \E v \in versions : v.deployment = depId /\ v.version = version

\* login check, get_query_dict, get_or_none, uniqueness check of the label:
\* the response raised before the transaction, NoResp when none is
VersionPostRefusal(auth, field, value, version) ==
    IF ~with_login_required(auth) THEN Forbidden
    ELSE IF LookupOutcome(field, value) # "found" THEN LookupFailure(field, value)
    ELSE IF VersionExists(Found(field, value).id, version) THEN DuplicateVersion
    ELSE NoResp

VersionPost(r, auth, field, value, version) ==
    /\ Idle(r)
    /\ IF VersionPostRefusal(auth, field, value, version) # NoResp
       THEN Rollback(r, VersionPostRefusal(auth, field, value, version))
       ELSE
            /\ nextVerId + PendingVersionInserts <= MaxVersions
            /\ Begin(r, "read_active")
            /\ req' = [req EXCEPT ![r] =
                         [name |-> Found(field, value).name,
                          subdomain |-> Found(field, value).subdomain,
                          version |-> version, dep |-> Found(field, value).id]]
            /\ UNCHANGED <<dbvars, fsvars, nextDepId, nextVerId, old, txn>>

VersionPostFrom(r, labels) ==
    \E auth \in BOOLEAN :
    \E field \in Inputs(auth, LookupFields) :
    \E value \in Inputs(auth /\ ValidLookupField(field), LookupValues) :
    \E version \in Inputs(auth /\ LookupOutcome(field, value) = "found", labels) :
        VersionPost(r, auth, field, value, version)

VersionPostStart(r) == VersionPostFrom(r, VersionLabels)

\* variant: a deployment without an active version has nothing to
\* deactivate and the upload goes on to insert its row
ReadActive_OrNone(r) ==
    /\ pc[r] = "read_active"
    /\ IF Cardinality(ActiveOf(req[r].dep)) = 1 THEN
            /\ old' = [old EXCEPT ![r] = CHOOSE v \in ActiveOf(req[r].dep) : TRUE]
            /\ Enter(r, "deactivate")
            /\ UNCHANGED <<dbvars, fsvars, nextDepId, nextVerId, req, txn>>
       ELSE IF ActiveOf(req[r].dep) = {} THEN
            /\ Enter(r, "insert_new")
            /\ UNCHANGED <<dbvars, fsvars, nextDepId, nextVerId, req, old, txn>>
       ELSE Rollback(r, ServerError("MultipleObjectsReturned"))

\* DeploymentVersion.objects.get(deployment=deployment, active=True):
\* DoesNotExist or MultipleObjectsReturned unless exactly one row matches
ReadActive(r) ==
    /\ pc[r] = "read_active"
    /\ IF Cardinality(ActiveOf(req[r].dep)) = 1 THEN
            /\ old' = [old EXCEPT ![r] = CHOOSE v \in ActiveOf(req[r].dep) : TRUE]
            /\ Enter(r, "deactivate")
            /\ UNCHANGED <<dbvars, fsvars, nextDepId, nextVerId, req, txn>>
       ELSE IF ActiveOf(req[r].dep) = {}
       THEN Rollback(r, ServerError("DoesNotExist"))
       ELSE Rollback(r, ServerError("MultipleObjectsReturned"))

\* the foreign key of a written DeploymentVersion row names a stored deployment
ForeignKeyHolds(r, row) ==
    \E d \in deployments \cup txn[r].deps : d.id = row.deployment

\* old_version.active = False
Deactivated(row) == [row EXCEPT !.active = FALSE]

\* old_version.save()
DeactivateOld(r) ==
    /\ pc[r] = "deactivate"
    \* a row written by an open transaction is locked until that one ends
    /\ \A w \in OtherTxnVers(r) : w.id # old[r].id
    /\ IF ForeignKeyHolds(r, old[r]) THEN
            /\ txn' = [txn EXCEPT ![r].vers = Upsert(@, Deactivated(old[r]))]
            /\ Enter(r, "insert_new")
            /\ UNCHANGED <<dbvars, fsvars, nextDepId, nextVerId, req, old>>
       ELSE Rollback(r, ServerError("IntegrityError"))

\* version_model = DeploymentVersion(version, deployment, active=True)
NewVersionRow(r) ==
    [id |-> nextVerId, deployment |-> req[r].dep,
     version |-> req[r].version, active |-> TRUE]

\* version_model.save()
InsertNew(r) ==
    /\ pc[r] = "insert_new"
    /\ txn' = [txn EXCEPT ![r].vers = Upsert(@, NewVersionRow(r))]
    /\ nextVerId' = nextVerId + 1
    /\ Enter(r, "extract_new")
    /\ UNCHANGED <<dbvars, fsvars, nextDepId, req, old>>

\* handle_uploaded_static_archive(file, subdomain, version, init=False)
ExtractNew(r) ==
    /\ pc[r] = "extract_new"
    /\ \/ /\ dirs' = Extracted(req[r].subdomain, req[r].version)
          /\ Enter(r, "symlink")
          /\ UNCHANGED <<dbvars, latest, nextDepId, nextVerId, req, old, txn>>
       \/ Rollback(r, ServerError("handle_uploaded_static_archive"))

\* update_symlink(deployment_data["name"], version)
UpdateSymlink(r) ==
    /\ pc[r] = "symlink"
    /\ \/ /\ latest' = Repointed(req[r].name, req[r].version)
          /\ Enter(r, "commit_new")
          /\ UNCHANGED <<dbvars, dirs, nextDepId, nextVerId, req, old, txn>>
       \/ Rollback(r, ServerError("update_symlink"))

\* leaving transaction.atomic() normally, then serialize(version_model)
CommitNew(r) ==
    /\ pc[r] = "commit_new"
    /\ deployments' = Committed(deployments, txn[r].deps)
    /\ versions' = Committed(versions, txn[r].vers)
    /\ Finish(r, VersionResp)
    /\ UNCHANGED <<fsvars, nextDepId, nextVerId>>

\* ------------------------------------------------ Deployment.delete
\* rows of the deployment written by another open transaction are locked
Unlocked(r, depId) == \A w \in OtherTxnVers(r) : w.deployment # depId

\* directory key handed to delete_hosted_deployment
DeploymentDeleteKey(d) == d.name

\* the pointer lives inside the deployment directory and goes with it
WithoutPointer(key) ==
    [k \in DOMAIN latest |-> IF k = key THEN NoVersion ELSE latest[k]]

\* login check, get_query_dict, get_or_none of the two delete handlers: the
\* response raised before any row is touched, NoResp when none is
DeleteRefusal(auth, field, value) ==
    IF ~with_login_required(auth) THEN Forbidden
    ELSE IF LookupOutcome(field, value) # "found" THEN LookupFailure(field, value)
    ELSE NoResp

DeploymentDeleteReq(r, auth, field, value) ==
    /\ Idle(r)
    /\ IF DeleteRefusal(auth, field, value) # NoResp
       THEN Rollback(r, DeleteRefusal(auth, field, value))
       ELSE
            /\ Unlocked(r, Found(field, value).id)
            /\ \/ \* deployment.delete() cascades; the directory call returns
                  /\ deployments' = deployments \ {Found(field, value)}
                  /\ versions' = Cascaded(versions, Found(field, value).id)
                  /\ dirs' = WithoutDeploymentDir(DeploymentDeleteKey(Found(field, value)))
                  /\ latest' = WithoutPointer(DeploymentDeleteKey(Found(field, value)))
                  /\ Finish(r, Success)
                  /\ UNCHANGED <<nextDepId, nextVerId>>
               \/ \* the directory call raises inside the atomic block
                  /\ deployments' = RolledBack(deployments,
                                        deployments \ {Found(field, value)})
                  /\ versions' = RolledBack(versions,
                                        Cascaded(versions, Found(field, value).id))
                  /\ Finish(r, ServerError("delete_hosted_deployment"))
                  /\ UNCHANGED <<fsvars, nextDepId, nextVerId>>

DeploymentDelete(r) ==
    \E auth \in BOOLEAN :
    \E field \in Inputs(auth, LookupFields) :
    \E value \in Inputs(auth /\ ValidLookupField(field), LookupValues) :
        DeploymentDeleteReq(r, auth, field, value)

\* ------------------------------------------------ DeploymentVersionView.delete
\* variant: the emptiness check looks at the rows of the deleted label
RemainingVersions_OfLabel(depId, version) ==
    {v \in VersionsOf(depId) : v.version = version}

\* rows left by DeploymentVersion.objects.filter(deployment, version).delete()
RemainingVersions(depId, version) ==
    {v \in VersionsOf(depId) : v.version # version}

\* delete_hosted_deployment(deployment) is handed the model object, whose
\* text is no directory key
ObjectText(d) == "StaticDeployment object"

\* what DeploymentVersionView.delete leaves for the deployment d it found:
\* the tables, the hosting directory and the response, with the directory
\* call of the handler returning or raising inside the atomic block
VersionDeleteEffect(d, version, returned) ==
    IF ~returned THEN
        [deployments |-> RolledBack(deployments,
                            IF RemainingVersions(d.id, version) = {}
                            THEN deployments \ {d} ELSE deployments),
         versions |-> RolledBack(versions,
                            (versions \ VersionsOf(d.id))
                              \cup RemainingVersions(d.id, version)),
         dirs |-> dirs,
         latest |-> latest,
         resp |-> ServerError(IF RemainingVersions(d.id, version) = {}
                              THEN "delete_hosted_deployment"
                              ELSE "delete_hosted_version")]
    ELSE IF RemainingVersions(d.id, version) = {} THEN
        \* no version is left: deployment.delete(), delete_hosted_deployment
        [deployments |-> deployments \ {d},
         versions |-> versions \ VersionsOf(d.id),
         dirs |-> WithoutDeploymentDir(ObjectText(d)),
         latest |-> WithoutPointer(ObjectText(d)),
         resp |-> Success]
    ELSE
        \* delete_hosted_version(deployment_data["name"], version)
        [deployments |-> deployments,
         versions |-> (versions \ VersionsOf(d.id))
                        \cup RemainingVersions(d.id, version),
         dirs |-> WithoutVersionDir(d.name, version),
         latest |-> latest,
         resp |-> Success]

VersionDeleteReq(r, auth, field, value, version) ==
    /\ Idle(r)
    /\ IF DeleteRefusal(auth, field, value) # NoResp
       THEN Rollback(r, DeleteRefusal(auth, field, value))
       ELSE
            /\ Unlocked(r, Found(field, value).id)
            /\ \E returned \in BOOLEAN :
                  LET effect == VersionDeleteEffect(Found(field, value), version, returned)
                  IN  /\ Finish(r, effect.resp)
                      /\ deployments' = effect.deployments
                      /\ versions' = effect.versions
                      /\ dirs' = effect.dirs
                      /\ latest' = effect.latest
            /\ UNCHANGED <<nextDepId, nextVerId>>

VersionDelete(r) ==
    \E auth \in BOOLEAN :
    \E field \in Inputs(auth, LookupFields) :
    \E value \in Inputs(auth /\ ValidLookupField(field), LookupValues) :
    \E version \in Inputs(auth /\ LookupOutcome(field, value) = "found", VersionLabels) :
        VersionDeleteReq(r, auth, field, value, version)

Step(r) ==
    \/ DeploymentsPostStart(r)
    \/ SaveDeployment(r)
    \/ SaveInitialVersion(r)
    \/ ExtractInitial(r)
    \/ CommitInitial(r)
    \/ DeploymentGet(r)
    \/ VersionPostStart(r)
    \/ ReadActive(r)
    \/ DeactivateOld(r)
    \/ InsertNew(r)
    \/ ExtractNew(r)
    \/ UpdateSymlink(r)
    \/ CommitNew(r)
    \/ DeploymentDelete(r)
    \/ VersionDelete(r)

\* requests handled concurrently
Next == \E r \in Reqs : Step(r)

Spec == Init /\ [][Next]_vars

\* one request at a time: each handler runs to its end before the next
\* begins, so a single slot serves them all
SeqReqs == {1}
NextSeq == \E r \in SeqReqs : Step(r)

SpecSeq == Init /\ [][NextSeq]_vars

\* upload-race workload: concurrent initial and new-version uploads, with a
\* third label so that two uploads can name different new versions
VersionPostStartWide(r) == VersionPostFrom(r, UploadLabels)

UploadStep(r) ==
    \/ DeploymentsPostStart(r)
    \/ SaveDeployment(r)
    \/ SaveInitialVersion(r)
    \/ ExtractInitial(r)
    \/ CommitInitial(r)
    \/ VersionPostStartWide(r)
    \/ ReadActive(r)
    \/ DeactivateOld(r)
    \/ InsertNew(r)
    \/ ExtractNew(r)
    \/ UpdateSymlink(r)
    \/ CommitNew(r)

NextUpload == \E r \in Reqs : UploadStep(r)

SpecUpload == Init /\ [][NextUpload]_vars

\* creation workload: concurrent initial uploads and deployment deletions
CreateStep(r) ==
    \/ DeploymentsPostStart(r)
    \/ SaveDeployment(r)
    \/ SaveInitialVersion(r)
    \/ ExtractInitial(r)
    \/ CommitInitial(r)
    \/ DeploymentDelete(r)

NextCreate == \E r \in Reqs : CreateStep(r)

SpecCreate == Init /\ [][NextCreate]_vars

\* ======================================================= checked statements
AllIdle == \A r \in Reqs : Idle(r)

\* the URL segment that looks a deployment up by the given field
IdText(n) == CASE n = 1 -> "1" [] n = 2 -> "2" [] n = 3 -> "3" [] n = 4 -> "4"
               [] OTHER -> "0"
KeyText(d, field) ==
    CASE field = "id" -> IdText(d.id) [] field = "name" -> d.name
      [] OTHER -> d.subdomain

\* C1: every stored deployment has exactly one version with active = true,
\* in every state reached by completed requests (never zero, never two).
C1_ExactlyOneActive ==
    \A d \in deployments :
        Cardinality({v \in versions : v.deployment = d.id /\ v.active}) = 1

\* no two stored deployments share a name or a subdomain
C2_NoSharedKey ==
    \A d1, d2 \in deployments :
        d1 # d2 => d1.name # d2.name /\ d1.subdomain # d2.subdomain

\* the save of a deployment whose name or subdomain a stored deployment has
\* ends the request with a 400 response and changes nothing stored
C2_ConflictRejected ==
    \A r \in Reqs :
        (/\ pc[r] = "save_dep"
         /\ pc'[r] # "save_dep"
         /\ \E d \in deployments :
                d.name = req[r].name \/ d.subdomain = req[r].subdomain)
        => /\ resp'.status = 400
           /\ pc'[r] = "idle"
           /\ deployments' = deployments
           /\ versions' = versions
           /\ dirs' = dirs
           /\ latest' = latest

\* C2: no two stored deployments ever share a name or a subdomain, under
\* any interleaving of creations, and an initial upload whose deployment save
\* meets a stored deployment with its name or its subdomain ends with a 400
\* response, stores no Deployment or Version row and extracts nothing.
C2_DuplicateDeploymentConflict ==
    [] C2_NoSharedKey /\ [][C2_ConflictRejected]_vars

\* a second creation was refused while the first deployment is stored
C2_Witness ==
    /\ resp = DuplicateDeployment
    /\ deployments # {}

\* the handler's answer to a logged-in upload that names, by any lookup
\* field, a stored deployment and a label it already has: the 400 of a
\* duplicate version, raised before the transaction
C3_Refused ==
    \A v \in versions : \A d \in {x \in deployments : x.id = v.deployment} :
    \A field \in {"id", "name", "subdomain"} :
        /\ VersionPostRefusal(TRUE, field, KeyText(d, field), v.version).status = 400
        /\ VersionPostRefusal(TRUE, field, KeyText(d, field), v.version) = DuplicateVersion

\* a step in which a handler ends (none moves on to a later statement)
FinishingStep == \A q \in Reqs : pc'[q] = pc[q] \/ pc'[q] = "idle"

\* the step that answers with the duplicate-version 400 changes nothing
C3_NoChange ==
    (FinishingStep /\ resp' = DuplicateVersion)
    => /\ deployments' = deployments
       /\ versions' = versions
       /\ dirs' = dirs
       /\ latest' = latest
       /\ \A r \in Reqs : txn'[r] = txn[r] \/ txn'[r] = EmptyTxn

\* C3: a new-version upload whose label the deployment already has is
\* answered 400 (conflict) before any transaction, and the step that gives
\* this answer changes no row (the active version stays active, none is
\* added), no version directory and no 'latest' pointer.
C3_ExistingLabelRejected == [] C3_Refused /\ [][C3_NoChange]_vars

\* an upload of an existing label was refused; its deployment still has its
\* active version
C3_Witness ==
    /\ resp = DuplicateVersion
    /\ \E d \in deployments : \E v \in versions : v.deployment = d.id /\ v.active

\* C4: when the extraction of an initial upload fails, the request ends with
\* the tables as they were: neither its Deployment row nor its Version row
\* is stored.
C4_FailedExtractionStoresNothing ==
    [][\A r \in Reqs :
        (pc[r] = "extract" /\ pc'[r] = "idle")
        => /\ deployments' = deployments
           /\ versions' = versions
           /\ \A d \in deployments' : d.id # req[r].dep
           /\ \A v \in versions' : v.deployment # req[r].dep
           /\ \A d \in deployments' :
                ~(d.name = req[r].name /\ d.subdomain = req[r].subdomain)
           /\ resp'.status = 500]_vars

\* the first initial upload failed in extraction: ids were drawn, no row and
\* no directory is left
C4_Witness ==
    /\ AllIdle
    /\ resp = ServerError("handle_uploaded_static_archive")
    /\ nextDepId = 2 /\ nextVerId = 2
    /\ deployments = {} /\ versions = {} /\ dirs = {}

\* C5: when a step of a new-version upload fails, the request ends with the
\* tables, the version directories and the 'latest' pointers as they were
\* when it began.
C5_FailedUploadRestoresState ==
    [][\A r \in Reqs :
        (/\ pc[r] \in {"read_active", "deactivate", "insert_new",
                       "extract_new", "symlink"}
         /\ pc'[r] = "idle")
        => /\ deployments' = deployments
           /\ versions' = versions
           /\ dirs' = before[r].dirs
           /\ latest' = before[r].latest]_vars

\* C6: a new-version upload repoints 'latest' only after its database half
\* has committed: at the step that changes the pointer, the new version's
\* row is stored and active.
C6_PointerAfterCommit ==
    [][\A r \in Reqs :
        (pc[r] = "symlink" /\ latest' # latest)
        => \E v \in versions :
              /\ v.deployment = req[r].dep
              /\ v.version = req[r].version
              /\ v.active]_vars

\* C7: no deployment ever has two stored versions with the same label,
\* however two uploads of one label interleave.
C7_OneRowPerLabel ==
    \A v1, v2 \in versions :
        (v1.deployment = v2.deployment /\ v1.version = v2.version) => v1.id = v2.id

\* C8: once concurrent uploads of different labels to one deployment have
\* ended, the deployment has no two active versions of different labels, and
\* a repointed 'latest' names its active version.
C8_SerializedActivation ==
    AllIdle =>
        \A d \in deployments :
            /\ \A v1, v2 \in versions :
                  (/\ v1.deployment = d.id /\ v2.deployment = d.id
                   /\ v1.active /\ v2.active)
                  => v1.version = v2.version
            /\ latest[d.name] # NoVersion =>
                  \A v \in versions :
                      (v.deployment = d.id /\ v.active) => v.version = latest[d.name]

\* C9: a successful DeleteVersion of the only version of a deployment leaves
\* no row of the deployment, no row of its versions and no directory under
\* the key its initial upload extracted into (its subdomain).
C9_LastVersionDeleteRemovesAll ==
    [][\A r \in Reqs : Idle(r) =>
       \A d \in deployments : \A v \in versions :
       \A field \in {"id", "name", "subdomain"} :
        (/\ {x \in versions : x.deployment = d.id} = {v}
         /\ VersionDeleteReq(r, TRUE, field, KeyText(d, field), v.version)
         /\ resp'.status = 200)
        => /\ d \notin deployments'
           /\ \A x \in versions' : x.deployment # d.id
           /\ \A p \in dirs' : p[1] # d.subdomain]_vars

\* C10: a successful DeleteDeployment leaves no row of the deployment, no
\* row of its versions and no directory under the key its initial upload
\* extracted into (its subdomain), whatever its name.
C10_DeploymentDeleteRemovesAll ==
    [][\A r \in Reqs : Idle(r) =>
       \A d \in deployments : \A field \in {"id", "name", "subdomain"} :
        (/\ DeploymentDeleteReq(r, TRUE, field, KeyText(d, field))
         /\ resp'.status = 200)
        => /\ d \notin deployments'
           /\ \A x \in versions' : x.deployment # d.id
           /\ \A p \in dirs' : p[1] # d.subdomain]_vars

\* after a new-version upload onto a deployment whose only version is its
\* first one: the lookup reports the new label active, both labels in
\* creation order, and a 'latest' pointer of the deployment names the new
\* version where its directory was extracted
C11_AfterSecondUpload ==
    \A r \in Reqs : \A d \in deployments : \A v1 \in versions :
    \A new \in {req[r].version} :
        (/\ pc[r] = "commit_new" /\ pc'[r] = "idle"
         /\ req[r].dep = d.id
         /\ VersionsOf(d.id) = {v1})
        => /\ (GetOutcome("subdomain", d.subdomain) = DeploymentResp)'
           /\ (deployment_data("subdomain", d.subdomain).active_version = new)'
           /\ (deployment_data("subdomain", d.subdomain).versions
                    = <<v1.version, new>>)'
           /\ \E k \in {d.name, d.subdomain} :
                    latest'[k] = new /\ <<k, new>> \in dirs'

\* after a successful DeleteVersion of the older of two versions the
\* deployment is still stored, with the newer label as its only version
C11_AfterFirstDelete ==
    \A r \in Reqs : \A d \in deployments : \A v1, v2 \in versions :
        (/\ Idle(r)
         /\ VersionsOf(d.id) = {v1, v2} /\ v1.id < v2.id
         /\ VersionDeleteReq(r, TRUE, "subdomain", d.subdomain, v1.version)
         /\ resp' = Success)
        => /\ d \in deployments'
           /\ (versions_list(d.id) = <<v2.version>>)'

\* after a successful DeleteVersion of the only version the deployment is
\* not stored and a lookup by its subdomain is answered not-found
C11_AfterLastDelete ==
    \A r \in Reqs : \A d \in deployments : \A v2 \in versions :
        (/\ Idle(r)
         /\ VersionsOf(d.id) = {v2}
         /\ VersionDeleteReq(r, TRUE, "subdomain", d.subdomain, v2.version)
         /\ resp' = Success)
        => /\ d \notin deployments'
           /\ (GetOutcome("subdomain", d.subdomain) = NotFoundResp)'

\* C11: scenario InitialUpload(name, subdomain, v1), NewVersionUpload(v2),
\* DeleteVersion(v1), DeleteVersion(v2): after the second upload the lookup
\* reports active_version v2 and versions [v1, v2] and the 'latest' pointer
\* resolves to v2; after the first delete the deployment is still stored
\* with versions [v2]; after the second it is gone and the lookup by
\* subdomain is answered not-found.
C11_UploadDeleteScenario ==
    [][C11_AfterSecondUpload /\ C11_AfterFirstDelete /\ C11_AfterLastDelete]_vars

\* C12: after a successful InitialUpload(name, subdomain, v1) the lookups by
\* name, by subdomain and by id each answer with the same deployment, with
\* versions = [v1] and active_version = v1.
C12_LookupRoundTrip ==
    [][\A r \in Reqs : \A d \in txn[r].deps : \A v1 \in {req[r].version} :
        (pc[r] = "commit" /\ pc'[r] = "idle")
        => \A field \in {"id", "name", "subdomain"} :
            /\ (GetOutcome(field, KeyText(d, field)) = DeploymentResp)'
            /\ (deployment_data(field, KeyText(d, field))
                    = [id |-> d.id, name |-> d.name, subdomain |-> d.subdomain,
                       versions |-> <<v1>>, active_version |-> v1])']_vars

\* an initial upload whose name differs from its subdomain has just been
\* committed, next to an older deployment, and is found by its name
C12_Witness ==
    /\ resp = CreatedResp
    /\ \E d, e \in deployments :
          /\ d.name # d.subdomain /\ e.id < d.id
          /\ VersionsOf(d.id) # {}
          /\ GetOutcome("name", d.name) = DeploymentResp
          /\ deployment_data("name", d.name).id = d.id

\* a logged-in request of handler r with the given lookup field and URL
\* segment: Deployment.get, DeploymentVersionView.post, Deployment.delete
\* or DeploymentVersionView.delete
C13_LookupRequest(r, field, value) ==
    \/ Rollback(r, GetOutcome(field, value))
    \/ DeploymentDeleteReq(r, TRUE, field, value)
    \/ \E version \in VersionLabels :
          \/ VersionPost(r, TRUE, field, value, version)
          \/ VersionDeleteReq(r, TRUE, field, value, version)

\* C13: a lookup, version upload or delete request whose lookupField is not
\* id, name or subdomain is answered 400 (bad input), never 404, whatever
\* the value, and changes no state; a request with a recognized field whose
\* value matches no deployment is answered 404 (not found).
C13_LookupFieldContract ==
    [][\A r \in Reqs : Idle(r) =>
       \A field \in LookupFields : \A value \in LookupValues :
        C13_LookupRequest(r, field, value)
        => /\ ~ValidLookupField(field)
                => /\ resp'.status = 400
                   /\ UNCHANGED <<deployments, versions, dirs, latest>>
           /\ (ValidLookupField(field)
                /\ \A d \in deployments : KeyText(d, field) # value)
                => resp'.status = 404]_vars

\* the answer of InitialUpload, NewVersionUpload, DeleteVersion and
\* DeleteDeployment to a request without a logged-in user, whatever its
\* other inputs: 403, raised before any lookup
C14_Refused ==
    /\ \A name \in NameInputs : \A subdomain \in SubdomainInputs :
            DeploymentsPostRefusal(FALSE, name, subdomain) = Forbidden
    /\ \A field \in LookupFields : \A value \in LookupValues :
          /\ DeleteRefusal(FALSE, field, value) = Forbidden
          /\ \A version \in UploadLabels :
                VersionPostRefusal(FALSE, field, value, version) = Forbidden

\* the step that answers 403 touches no row, no id counter, no directory,
\* no pointer and writes nothing into a transaction
C14_NoChange ==
    (FinishingStep /\ resp' = Forbidden)
    => /\ UNCHANGED <<deployments, versions, nextDepId, nextVerId, dirs, latest>>
       /\ \A r \in Reqs : txn'[r] = txn[r] \/ txn'[r] = EmptyTxn

\* C14: an unauthenticated InitialUpload, NewVersionUpload, DeleteVersion or
\* DeleteDeployment is answered 403 (forbidden) before any lookup, row
\* mutation or filesystem call: the database and the hosting directory after
\* the request equal those before it.
C14_UnauthenticatedRefused == [] C14_Refused /\ [][C14_NoChange]_vars

\* an unauthenticated request was refused while a deployment with an
\* extracted directory is stored
C14_Witness ==
    /\ resp = Forbidden
    /\ AllIdle
    /\ \E d \in deployments : \E v \in VersionsOf(d.id) :
            <<d.subdomain, v.version>> \in dirs

\* C15: a DeleteVersion or DeleteDeployment whose directory removal
\* (delete_hosted_version / delete_hosted_deployment) raises is answered
\* with a failure (500) and commits none of its row deletions: the
\* Deployment row and every Version row stored before it are still stored.
C15_FailedRemovalKeepsRows ==
    [][(/\ FinishingStep
        /\ resp'.uncaught \in {"delete_hosted_deployment", "delete_hosted_version"})
       => /\ resp'.status = 500
          /\ deployments' = deployments
          /\ versions' = versions
          /\ \A d \in deployments :
                d \in deployments' /\ (VersionsOf(d.id))' = VersionsOf(d.id)]_vars

\* the directory removal of a delete request has just failed and the
\* deployment it named is stored with its versions
C15_Witness ==
    /\ AllIdle
    /\ resp.status = 500
    /\ resp.uncaught \in {"delete_hosted_deployment", "delete_hosted_version"}
    /\ \E d \in deployments : VersionsOf(d.id) # {}

\* C16: in every state a sequence of requests reaches, every Version row
\* belongs to a stored Deployment (no version outlives its deployment) and
\* every stored Deployment owns at least one Version row.
C16_VersionsAndDeploymentsPaired ==
    /\ \A v \in versions : \E d \in deployments : d.id = v.deployment
    /\ \A d \in deployments : VersionsOf(d.id) # {}

\* two deployments were created and a delete has just removed one of them
\* with its versions; the other is stored with its own
C16_Witness ==
    /\ AllIdle
    /\ resp = Success
    /\ nextDepId = 3
    /\ Cardinality(deployments) = 1
    /\ versions # {}

\* C17: a successful DeleteVersion of one version of a deployment that has
\* others deletes that Version row and the directory that version was
\* extracted into, and nothing else: the Deployment rows, every other
\* Version row with its active flag, every other version directory and the
\* pointers are unchanged, and no version is promoted.
C17_DeleteVersionFrame ==
    [][\A r \in Reqs : \A d \in deployments : \A v \in versions :
        (/\ Idle(r)
         /\ resp' = Success
         /\ v.deployment = d.id
         /\ VersionsOf(d.id) # {v}
         /\ VersionDeleteReq(r, TRUE, "id", IdText(d.id), v.version))
        => /\ deployments' = deployments
           /\ versions' = versions \ {v}
           /\ dirs' = dirs \ {<<d.subdomain, v.version>>}
           /\ latest' = latest]_vars

\* a new-version upload that comes to read the active version of a
\* deployment without one ends there with a 500 and changes nothing
C18_UploadFails ==
    \A r \in Reqs :
        (/\ pc[r] = "read_active"
         /\ ActiveOf(req[r].dep) = {}
         /\ pc'[r] # pc[r])
        => /\ pc'[r] = "idle"
           /\ resp'.status = 500
           /\ UNCHANGED <<deployments, versions, dirs, latest>>

\* a deployment record without an active version has none after any step
C18_StaysInactive ==
    \A d \in deployments :
        ActiveOf(d.id) = {} => (ActiveOf(d.id))' = {}

\* C18: a NewVersionUpload onto a deployment that has no active version
\* fails and changes no state; so a deployment record that has lost its
\* active version is never given one again by any sequence of requests.
C18_NoReactivation == [][C18_UploadFails /\ C18_StaysInactive]_vars

\* an upload onto a deployment that has versions but no active one has
\* just failed reading the active version
C18_Witness ==
    /\ AllIdle
    /\ resp = ServerError("DoesNotExist")
    /\ \E d \in deployments : VersionsOf(d.id) # {} /\ ActiveOf(d.id) = {}

\* C19: in every reachable state the lookup of a stored deployment by id,
\* name or subdomain answers with the deployment, its versions list and an
\* active_version that is one of them; a lookup fails only when no
\* deployment matches.
C19_LookupOfStoredDeployment ==
    \A d \in deployments : \A field \in {"id", "name", "subdomain"} :
        /\ GetOutcome(field, KeyText(d, field)) = DeploymentResp
        /\ deployment_data(field, KeyText(d, field)).id = d.id
        /\ \E i \in DOMAIN deployment_data(field, KeyText(d, field)).versions :
                deployment_data(field, KeyText(d, field)).versions[i]
                    = deployment_data(field, KeyText(d, field)).active_version

====
